---- MODULE Spec2Model ----
(***************************************************************************)
(* Model of lkf_tools/detection.py: the segment tracer (detect_segments),  *)
(* the reconnection engine (seg_reconnection and its helpers), the length  *)
(* filter (filter_segs_lmin) and the pipeline lkf_detect_eps_multday that  *)
(* chains them.                                                            *)
(*                                                                         *)
(* Conventions.  A grid point is a pair <<row, col>>.  NaN is the empty    *)
(* tuple <<>>: a NaN point of the tracer's array, or a NaN number, which   *)
(* is written <<>> while the number v is written <<v>>.  Indices stored in *)
(* the state (active_detection, ind_connect) are 0-based as in the source; *)
(* TLA+ sequences are 1-based, so row a of an array is seg_f[a + 1].       *)
(* Floating point is modelled by exact integer arithmetic where the source *)
(* compares (squared distances, cross-multiplied means) and by fixed point *)
(* with Scale steps per unit where it needs a square root or an angle.     *)
(***************************************************************************)
EXTENDS Integers, Sequences, FiniteSets, TLC

\* ------------------------------------------------------------- bounds
\* interior grid of the general tracer inputs is Dim x Dim
Dim == 3
\* a general tracer input has at most MaxPix set pixels
MaxPix == 5
\* the small iteration cap offered next to the default one
CapSmall == 1

\* ---------------------------------------------------- program constants
angle_point_thres == 5
fac_starts == 100
DefaultMaxInd == 500

\* ------------------------------------------------------------ helpers
NaN == <<>>

Abs(v) == IF v < 0 THEN -v ELSE v

Min(a, b) == IF a <= b THEN a ELSE b

SetMax(S) == CHOOSE m \in S : \A k \in S : k <= m

\* ------------------------------------------------------------- state
VARIABLES
    pc,                \* position in the program
    raised,            \* "" or the exception that ended the call
    lkf_thin,          \* set pixels of the thinned mask, full-grid coordinates
    shape,             \* <<rows, cols>> of the interior lkf_thin[1:-1,1:-1]
    max_ind,           \* iteration cap of detect_segments
    seg_f,             \* detect_segments' array seg: rows of points or NaN
    nodetect,          \* interior pixels not detected so far
    active_detection,  \* 0-based rows of seg_f that are active, in order
    ind,               \* index of the detection iteration
    num_nodetect,      \* number of undetected pixels, as last computed
    seg,               \* list of segments, each a sequence of points
    segs,              \* per segment <<start point, end point>>
    eps_segs,          \* per segment mean statistic, a fraction <<num, den>>
    num_points_segs,   \* per segment number of points
    prob_ma,           \* probability matrix, rows of <<prob, ori_segI, ori_segs>>
    i_rec,             \* loop index i of seg_reconnection
    dis_thres,         \* distance threshold of the running pass, in 1/Scale
    angle_thres,       \* angle threshold of the running pass, in degrees
    eps_thres,         \* statistic threshold of the running pass, in 1/Scale
    ellp_fac,          \* ellipse factor of the running pass
    last_merge,        \* history: <<>> or the merge update_segs did last
    pass,              \* 0: seg_reconnection called directly; 1, 2: pipeline pass
    params,            \* the caller's parameters of lkf_detect_eps_multday
    log_eps,           \* log10 of the mean deformation, per interior pixel, in 1/Scale
    ret                \* values returned by direct calls of filter_segs_lmin

tracer_vars == <<lkf_thin, shape, max_ind, seg_f, nodetect, active_detection,
                 ind, num_nodetect>>

rec_vars == <<seg, segs, eps_segs, num_points_segs, prob_ma, i_rec, last_merge>>

thres_vars == <<dis_thres, angle_thres, eps_thres, ellp_fac>>

pipe_vars == <<pass, params, log_eps, ret>>

vars == <<pc, raised, tracer_vars, rec_vars, thres_vars, pipe_vars>>

\* ---------------------------------------------- 2. segment detection
Interior == (0 .. shape[1] - 1) \X (0 .. shape[2] - 1)

\* np.ravel_multi_index(p, lkf_thin[1:-1,1:-1].shape)
Ravel(p) == p[1] * shape[2] + p[2]

\* np.where / np.unique order: ascending raveled index
RECURSIVE SortByRavel(_)
SortByRavel(S) ==
    IF S = {} THEN <<>>
    ELSE LET m == CHOOSE p \in S : \A q \in S : Ravel(p) <= Ravel(q)
         IN  <<m>> \o SortByRavel(S \ {m})

\* an interior array padded with a border of zeros (nodetect_intm)
Pad(nd) == {<<p[1] + 1, p[2] + 1>> : p \in nd}

\* nansum_neighbours_jax(img)[p]: the 3x3 sum of img centred at interior p,
\* the pixel itself included
nansum_neighbours_jax(img, p) ==
    Cardinality({q \in img : /\ Abs(q[1] - (p[1] + 1)) <= 1
                             /\ Abs(q[2] - (p[2] + 1)) <= 1})

\* a jax array read at index k of an axis of length n: negative wraps,
\* out of range clamps
JaxIdx(k, n) == IF k < 0 THEN (IF k + n < 0 THEN 0 ELSE k + n)
                ELSE IF k >= n THEN n - 1 ELSE k

\* a numpy array read at index k of an axis of length n: negative wraps
NpIdx(k, n) == IF k < 0 THEN k + n ELSE k

NpInRange(k, n) == k >= -n /\ k < n

\* the order in which the loops over ix and iy visit the neighbourhood
Scan == << <<-1, -1>>, <<-1, 0>>, <<-1, 1>>, <<0, -1>>, <<0, 0>>, <<0, 1>>,
           <<1, -1>>, <<1, 0>>, <<1, 1>> >>

\* every segment steps to the right, whatever the mask holds
xy_right(t, nd) == <<0, 1>>

\* x, y of one active segment: the last offset of the scan that hits an
\* undetected pixel, NaN when none does
xy(t, nd) ==
    LET hits == {k \in 1 .. 9 : <<t[1] + Scan[k][1], t[2] + Scan[k][2]>> \in nd}
    IN  IF hits = {} THEN NaN ELSE Scan[SetMax(hits)]

\* number of valid points of a row, limited to angle_point_thres
num_points(row) ==
    Min(Cardinality({k \in 1 .. Len(row) : row[k] # NaN}), angle_point_thres)

\* np.sum(np.abs(dx),axis=1) > 1 for one row and its candidate app, with
\* dx = (last - back)/(n-1) - (app - last), multiplied through by n-1
SharpTurn(row, app) ==
    LET n    == num_points(row)
        last == row[Len(row)]
        back == row[Len(row) - n + 1]
    IN  /\ app # NaN
        /\ n > 1
        /\ last # NaN
        /\ back # NaN
        /\ Abs((last[1] - back[1]) - (n - 1) * (app[1] - last[1]))
             + Abs((last[2] - back[2]) - (n - 1) * (app[2] - last[2])) > n - 1

\* only the first of the starting points
StartPointsFirstOnly ==
    LET st == SortByRavel({p \in Interior :
                              /\ <<p[1] + 1, p[2] + 1>> \in lkf_thin
                              /\ nansum_neighbours_jax(lkf_thin, p) <= 2})
    IN  IF st = <<>> THEN <<>> ELSE <<st[1]>>

\* starting points: set interior pixels with at most one set neighbour
StartPoints ==
    SortByRavel({p \in Interior : /\ <<p[1] + 1, p[2] + 1>> \in lkf_thin
                                  /\ nansum_neighbours_jax(lkf_thin, p) <= 2})

\* nodetect taken as the whole interior
StartNodetectAll == Interior

\* nodetect after the starting points with one neighbour are set to zero
StartNodetect ==
    {p \in Interior : /\ <<p[1] + 1, p[2] + 1>> \in lkf_thin
                      /\ nansum_neighbours_jax(lkf_thin, p) # 2}

\* active list after the starting points that do not see exactly one
\* undetected pixel are removed
StartActive ==
    LET st == StartPoints
        keep(k) == nansum_neighbours_jax(Pad(StartNodetect), st[k + 1]) = 1
    IN  SelectSeq([k \in 1 .. Len(st) |-> k - 1], keep)

\* detect_segments up to the detection loop
FindStartingPoints ==
    /\ pc = "start"
    /\ seg_f' = [k \in 1 .. Len(StartPoints) |-> <<StartPoints[k]>>]
    /\ nodetect' = StartNodetect
    /\ active_detection' = StartActive
    /\ num_nodetect' = Cardinality(StartNodetect)
    /\ ind' = 0
    /\ pc' = "loop"
    /\ UNCHANGED <<raised, lkf_thin, shape, max_ind, rec_vars, thres_vars, pipe_vars>>

\* ------------------------------------------- one detection iteration
NumActive == Len(active_detection)

\* seg_active = seg[active_detection], row p of it (p = 1 .. NumActive)
seg_active(p) == seg_f[active_detection[p] + 1]

\* seg_active[:,:,ind], the tip of an active row
tip(p) == seg_active(p)[ind + 1]

\* seg_append: the tip moved by x, y
seg_append(p) ==
    LET t == tip(p)
        d == xy(t, nodetect)
    IN  IF d = NaN THEN NaN ELSE <<t[1] + d[1], t[2] + d[2]>>

\* positions (0-based, in the active list) of the segments that ended
deactivate_segs_end == {p - 1 : p \in {q \in 1 .. NumActive : seg_append(q) = NaN}}

\* the sharp-turn filter runs once seg has more than one column
angle_filter_on == ind + 1 > 1

\* positions of the segments broken by a sharp turn
deactivate_segs_ang ==
    IF angle_filter_on
    THEN {p - 1 : p \in {q \in 1 .. NumActive :
                           SharpTurn(seg_active(q), seg_append(q))}}
    ELSE {}

\* new starting points registered by the sharp-turn filter
new_starts_ang == {seg_append(p + 1) : p \in deactivate_segs_ang}

\* all candidate heads of this iteration: the non-NaN rows of seg_append,
\* in the order of the active list
heads == SelectSeq([p \in 1 .. NumActive |-> seg_append(p)], LAMBDA h : h # NaN)

seg_head_unique == {heads[k] : k \in 1 .. Len(heads)}

\* nodetect after the candidates are marked as detected
nodetect_marked == nodetect \ seg_head_unique

\* num_neighbours, read the way a jax array is indexed
num_neighbours(q) ==
    nansum_neighbours_jax(Pad(nodetect_marked),
                          <<JaxIdx(q[1], shape[1]), JaxIdx(q[2], shape[2])>>)

\* positions of the segments whose new head has more than one neighbour
deactivate_segs_muln ==
    {p - 1 : p \in {q \in 1 .. NumActive :
                      /\ seg_append(q) # NaN
                      /\ num_neighbours(seg_append(q)) > 1}}

\* the 3x3 neighbourhoods of those heads
neigh_deactivate ==
    {<<seg_append(p + 1)[1] + i, seg_append(p + 1)[2] + j>> :
        p \in deactivate_segs_muln, i \in {-1, 0, 1}, j \in {-1, 0, 1}}

\* nodetect[neigh_deactivate] reads a numpy array: an index past the last
\* row or column raises IndexError
neigh_index_error ==
    \E n \in neigh_deactivate :
        ~NpInRange(n[1], shape[1]) \/ ~NpInRange(n[2], shape[2])

\* no neighbour is activated
new_starts_deact_none == {}

\* neighbours activated as new starts: undetected, at most one undetected
\* neighbour of their own; coordinates are kept as computed (-1 stays -1)
new_starts_deact ==
    {n \in neigh_deactivate :
        /\ num_neighbours(n) <= 2
        /\ <<NpIdx(n[1], shape[1]), NpIdx(n[2], shape[2])>> \in nodetect_marked}

\* nodetect at the end of the iteration body
nodetect_iter ==
    nodetect_marked \ {<<NpIdx(n[1], shape[1]), NpIdx(n[2], shape[2])>> :
                          n \in new_starts_deact}

\* heads claimed by more than one active segment
same_heads ==
    {h \in seg_head_unique :
        Cardinality({k \in 1 .. Len(heads) : heads[k] = h}) > 1}

\* np.where(ravel_seg_append == ihead): positions in the compressed list of
\* non-NaN heads, later used as positions in the active list
deactivate_segs_samehead ==
    {k - 1 : k \in {j \in 1 .. Len(heads) : heads[j] \in same_heads}}

\* every new start collected in the iteration
new_starts_all == new_starts_ang \cup new_starts_deact \cup same_heads

\* np.ravel_multi_index raises ValueError on a coordinate outside the grid
ravel_value_error == \E n \in new_starts_all : n \notin Interior

\* "Test for multiple times same start": unique, sorted, heads removed
new_starts ==
    SortByRavel({n \in new_starts_all : n \notin seg_head_unique})

\* every old row, active or not, gets the pixel (0, 0) appended
seg_append_time_all(a) == <<0, 0>>

\* seg_append_time of an old row a (0-based): its candidate, NaN when the
\* row is not active or was broken by a sharp turn
seg_append_time(a) ==
    LET ps == {p \in 1 .. NumActive : active_detection[p] = a}
    IN  IF ps = {} THEN NaN
        ELSE LET p == CHOOSE q \in ps : TRUE
             IN  IF (p - 1) \in deactivate_segs_ang THEN NaN ELSE seg_append(p)

\* seg after the new rows and the new column are appended
seg_iter ==
    [a \in 1 .. Len(seg_f) |-> Append(seg_f[a], seg_append_time(a - 1))]
    \o [k \in 1 .. Len(new_starts) |->
            Append([c \in 1 .. ind + 1 |-> NaN], new_starts[k])]

deactivate_segs ==
    deactivate_segs_muln \cup deactivate_segs_ang \cup deactivate_segs_end
        \cup deactivate_segs_samehead

\* np.delete(active_detection, deactivate_segs) followed by the new rows
active_iter ==
    SelectSeq([p \in 1 .. NumActive |->
                  IF (p - 1) \in deactivate_segs THEN -1 ELSE active_detection[p]],
              LAMBDA a : a >= 0)
    \o [k \in 1 .. Len(new_starts) |-> Len(seg_f) + k - 1]

\* --------------------------- forced starts when no segment is active
\* A[::fac_starts] followed by A[1::fac_starts]
Subsample(A) ==
    SelectSeq([k \in 1 .. Len(A) |-> IF (k - 1) % fac_starts = 0 THEN A[k] ELSE NaN],
              LAMBDA v : v # NaN)
    \o SelectSeq([k \in 1 .. Len(A) |-> IF (k - 1) % fac_starts = 1 THEN A[k] ELSE NaN],
                 LAMBDA v : v # NaN)

forced_three ==
    Subsample(SortByRavel({q \in nodetect_iter :
                              nansum_neighbours_jax(Pad(nodetect_iter), q) = 3}))

nodetect_three == nodetect_iter \ {forced_three[k] : k \in 1 .. Len(forced_three)}

forced_ends ==
    SortByRavel({q \in nodetect_three :
                    nansum_neighbours_jax(Pad(nodetect_three), q) <= 2})

\* no forced start at all
forced_starts_none == <<>>

forced_starts == forced_three \o forced_ends

nodetect_forced == nodetect_three \ {forced_ends[k] : k \in 1 .. Len(forced_ends)}

seg_forced ==
    seg_iter \o [k \in 1 .. Len(forced_starts) |->
                    Append([c \in 1 .. ind + 1 |-> NaN], forced_starts[k])]

active_forced == [k \in 1 .. Len(forced_starts) |-> Len(seg_iter) + k - 1]

\* one pass through the body of "while num_nodetect > 0"
DetectionLoop ==
    /\ pc = "loop"
    /\ num_nodetect > 0
    /\ IF deactivate_segs_muln # {} /\ neigh_index_error
       THEN /\ pc' = "error"
            /\ raised' = "IndexError"
            /\ UNCHANGED <<tracer_vars, rec_vars, thres_vars, pipe_vars>>
       ELSE IF ravel_value_error
       THEN /\ pc' = "error"
            /\ raised' = "ValueError"
            /\ UNCHANGED <<tracer_vars, rec_vars, thres_vars, pipe_vars>>
       ELSE /\ num_nodetect' = Cardinality(nodetect_iter)
            /\ ind' = ind + 1
            /\ IF ind + 1 > max_ind
               THEN /\ seg_f' = seg_iter
                    /\ nodetect' = nodetect_iter
                    /\ active_detection' = active_iter
                    /\ pc' = "traced"
               ELSE IF active_iter = <<>>
               THEN /\ seg_f' = seg_forced
                    /\ nodetect' = nodetect_forced
                    /\ active_detection' = active_forced
                    /\ pc' = IF active_forced = <<>> THEN "traced" ELSE "loop"
               ELSE /\ seg_f' = seg_iter
                    /\ nodetect' = nodetect_iter
                    /\ active_detection' = active_iter
                    /\ pc' = "loop"
            /\ UNCHANGED <<raised, lkf_thin, shape, max_ind, rec_vars, thres_vars, pipe_vars>>

\* the loop condition fails: return seg
LoopExit ==
    /\ pc = "loop"
    /\ num_nodetect <= 0
    /\ pc' = "traced"
    /\ UNCHANGED <<raised, tracer_vars, rec_vars, thres_vars, pipe_vars>>

\* -------------------------------------- 3. reconnection of segments
\* steps per unit of the fixed-point numbers (thresholds, distances, the
\* components p_eps, p_ang, p_dis)
Scale == 10 * 10

\* round(1000 * tan(t degrees)) for t = 0 .. 89; arccos is evaluated in
\* whole degrees through the tangent of the angle
TanTab ==
    << 0, 17, 35, 52, 70, 87, 105, 123, 141, 158,
       176, 194, 213, 231, 249, 268, 287, 306, 325, 344,
       364, 384, 404, 424, 445, 466, 488, 510, 532, 554,
       577, 601, 625, 649, 675, 700, 727, 754, 781, 810,
       839, 869, 900, 933, 966, 1000, 1036, 1072, 1111, 1150,
       1192, 1235, 1280, 1327, 1376, 1428, 1483, 1540, 1600, 1664,
       1732, 1804, 1881, 1963, 2050, 2145, 2246, 2356, 2475, 2605,
       2747, 2904, 3078, 3271, 3487, 3732, 4011, 4331, 4705, 5145,
       5671, 6314, 7115, 8144, 9514, 11430, 14301, 19081, 28636, 57290 >>

\* largest r with r * r <= n, by bisection
RECURSIVE ISqrtIn(_, _, _)
ISqrtIn(n, lo, hi) ==
    IF lo >= hi THEN lo
    ELSE LET mid == (lo + hi + 1) \div 2
         IN  IF mid * mid <= n THEN ISqrtIn(n, mid, hi) ELSE ISqrtIn(n, lo, mid - 1)

ISqrt(n) == ISqrtIn(n, 0, 30000)

Dot(v, w) == v[1] * w[1] + v[2] * w[2]

Sub(v, w) == <<v[1] - w[1], v[2] - w[2]>>

\* seg[:, ::-1] of a <<start, end>> pair when flip = 1, a copy otherwise
Flip(pair, flip) == IF flip = 1 THEN <<pair[2], pair[1]>> ELSE pair

\* angle between the vectors v and w in whole degrees (rounded down)
AngleDeg(v, w) ==
    LET dot == Dot(v, w)
        cr  == Abs(v[1] * w[2] - v[2] * w[1])
    IN  IF dot > 0
        THEN SetMax({t \in 0 .. 89 : TanTab[t + 1] * dot <= 1000 * cr})
        ELSE IF dot = 0 THEN 90
        ELSE 180 - (CHOOSE t \in 0 .. 90 :
                       /\ t = 90 \/ 1000 * cr <= TanTab[t + 1] * (-dot)
                       /\ \A u \in 0 .. t - 1 : 1000 * cr > TanTab[u + 1] * (-dot))

\* angle_segs: angle between e1 = start - end of seg_I and -f1 of seg_II,
\* NaN when a segment has no extent (0/0)
angle_segs(seg_I, seg_II) ==
    LET e1 == Sub(seg_I[1], seg_I[2])
        f1 == Sub(seg_II[1], seg_II[2])
    IN  IF Dot(e1, e1) = 0 \/ Dot(f1, f1) = 0 THEN NaN
        ELSE <<AngleDeg(e1, <<-f1[1], -f1[2]>>)>>

\* squared weighted distance of the connection vector conn in the frame of
\* the direction e, as the fraction <<sum2, len2>>: c0^2 + fac*c1^2 with c0
\* along e and c1 across, over |e|^2; inf_behind says whether a negative c0
\* counts as infinity.  <<>> stands for NaN or infinity
weighted_distance2(e, conn, fac, inf_behind) ==
    LET len2 == Dot(e, e)
        c0   == Dot(conn, e)
        c1   == Dot(conn, <<-e[2], e[1]>>)
        sum2 == c0 * c0 + fac * c1 * c1
    IN  IF len2 = 0 \/ (inf_behind /\ c0 < 0) \/ sum2 < 0 THEN NaN
        ELSE <<sum2, len2>>

\* the square root of such a fraction, times Scale
RootScaled(f) == ISqrt((f[1] * Scale * Scale) \div f[2])

\* elliptical_distance, times Scale; NaN unless d1 <= thres
elliptical_distance(seg_I, seg_II, fac, thres) ==
    LET d1 == weighted_distance2(Sub(seg_I[1], seg_I[2]),
                                 Sub(seg_II[1], seg_I[1]), fac, TRUE)
        d2 == weighted_distance2(Sub(seg_II[1], seg_II[2]),
                                 Sub(seg_I[1], seg_II[1]), fac, FALSE)
    IN  IF d1 = NaN \/ d2 = NaN THEN NaN
        ELSE IF thres < 0 \/ d1[1] * Scale * Scale > thres * thres * d1[2] THEN NaN
        ELSE <<(RootScaled(d1) + RootScaled(d2)) \div 2>>

\* squared distance between two points
Dist2(p, q) == Dot(Sub(p, q), Sub(p, q))

\* find_pos_connect for one segment of segs: <<ori_segI, ori_segs, mask>>.
\* dis[s][a] is the distance of endpoint s of seg_J from endpoint a of
\* seg_I; the first argmin runs over s, the second over a
find_pos_connect(seg_I, seg_J, thres) ==
    LET dis(s, a)  == Dist2(seg_J[s + 1], seg_I[a + 1])
        argmin_s(a) == IF dis(0, a) <= dis(1, a) THEN 0 ELSE 1
        min_s(a)    == Min(dis(0, a), dis(1, a))
        ori_segs    == IF min_s(0) <= min_s(1) THEN 0 ELSE 1
        ori_segI    == argmin_s(ori_segs)
        mask        == \E s \in {0, 1}, a \in {0, 1} :
                          /\ thres >= 0
                          /\ dis(s, a) * Scale * Scale <= thres * thres
    IN  <<ori_segI, ori_segs, mask>>

\* no test of the means: every pair passes with p_eps 0
p_eps_ignored(eps_I, eps_J, thres) == <<0>>

\* p_eps of two means given as fractions, times Scale; NaN when above 1
p_eps_of(eps_I, eps_J, thres) ==
    LET diff == Abs(eps_I[1] * eps_J[2] - eps_J[1] * eps_I[2])
        den  == eps_I[2] * eps_J[2]
    IN  IF thres = 0 THEN NaN
        ELSE IF thres < 0 THEN <<-((diff * Scale) \div (den * (-thres)))>>
        ELSE IF diff > den * thres THEN NaN
        ELSE <<(diff * Scale) \div (den * thres)>>

\* p_ang of an angle in degrees, times Scale; NaN when above 1
p_ang_of(angle, thres) ==
    IF angle = NaN \/ thres = 0 THEN NaN
    ELSE IF thres < 0 THEN <<-((angle[1] * Scale) \div (-thres))>>
    ELSE IF angle[1] > thres THEN NaN
    ELSE <<(angle[1] * Scale) \div thres>>

\* p_dis of an elliptical distance, times Scale; NaN when above 1
p_dis_of(dis, thres) ==
    IF dis = NaN \/ thres <= 0 THEN NaN
    ELSE IF dis[1] > thres THEN NaN
    ELSE <<(dis[1] * Scale) \div thres>>

NaNEntry == <<NaN, NaN, NaN>>

\* compute_prob for seg_I and one segment seg_J of segs:
\* <<prob, ori_segI, ori_segs>>.  prob holds Scale^2 * (p_eps^2 + p_ang^2 +
\* p_dis^2), the square of the source's value: it orders the same way and
\* is below Scale^2 exactly when the source's value is below 1
compute_prob(seg_I, seg_J, eps_I, eps_J, d_thres, a_thres, e_thres, fac) ==
    LET p_eps == p_eps_of(eps_I, eps_J, e_thres)
        fpc   == find_pos_connect(seg_I, seg_J, d_thres)
        seg_I_i  == Flip(seg_I, fpc[1])
        seg_II_i == Flip(seg_J, fpc[2])
        p_ang == p_ang_of(angle_segs(seg_I_i, seg_II_i), a_thres)
        p_dis == p_dis_of(elliptical_distance(seg_I_i, seg_II_i, fac, d_thres),
                          d_thres)
    IN  IF p_eps = NaN \/ ~fpc[3] \/ p_ang = NaN THEN NaNEntry
        ELSE << IF p_dis = NaN THEN NaN
                ELSE <<p_eps[1] * p_eps[1] + p_ang[1] * p_ang[1]
                         + p_dis[1] * p_dis[1]>>,
                <<fpc[1]>>, <<fpc[2]>> >>

\* init_prob_matrix: upper triangle filled row by row
init_prob_matrix(sg, ep, d_thres, a_thres, e_thres, fac) ==
    [r \in 1 .. Len(sg) |->
        [c \in 1 .. Len(sg) |->
            IF c > r
            THEN compute_prob(sg[r], sg[c], ep[r], ep[c],
                              d_thres, a_thres, e_thres, fac)
            ELSE NaNEntry]]

\* np.sum(prob_ma[:, :, 0] < 1)
num_pos_reconnect ==
    Cardinality({rc \in (1 .. Len(prob_ma)) \X (1 .. Len(prob_ma)) :
                    /\ prob_ma[rc[1]][rc[2]][1] # NaN
                    /\ prob_ma[rc[1]][rc[2]][1][1] < Scale * Scale})

\* the first pair with a score in row-major order, minimal or not
ind_connect_first ==
    LET n    == Len(prob_ma)
        full == {rc \in (1 .. n) \X (1 .. n) : prob_ma[rc[1]][rc[2]][1] # NaN}
        best == CHOOSE rc \in full :
                   \A o \in full : rc[1] * n + rc[2] <= o[1] * n + o[2]
    IN  <<best[1] - 1, best[2] - 1>>

\* np.unravel_index(np.nanargmin(prob_ma[:, :, 0])): 0-based <<row, col>> of
\* the first minimal entry in row-major order
ind_connect ==
    LET n    == Len(prob_ma)
        full == {rc \in (1 .. n) \X (1 .. n) : prob_ma[rc[1]][rc[2]][1] # NaN}
        val(rc) == prob_ma[rc[1]][rc[2]][1][1]
        best == CHOOSE rc \in full :
                   \A o \in full :
                      \/ val(rc) < val(o)
                      \/ /\ val(rc) = val(o)
                         /\ rc[1] * n + rc[2] <= o[1] * n + o[2]
    IN  <<best[1] - 1, best[2] - 1>>

\* prob_ma[ind_connect][1:]
ori_connect ==
    <<prob_ma[ind_connect[1] + 1][ind_connect[2] + 1][2][1],
      prob_ma[ind_connect[1] + 1][ind_connect[2] + 1][3][1]>>

Reverse(sq) == [k \in 1 .. Len(sq) |-> sq[Len(sq) + 1 - k]]

\* a[:, ::step] with step = 1 or -1
Stride(sq, step) == IF step = -1 THEN Reverse(sq) ELSE sq

DeleteAt(sq, k) == [j \in 1 .. Len(sq) - 1 |-> IF j < k THEN sq[j] ELSE sq[j + 1]]

Gcd(a, b) == SetMax({d \in 1 .. (IF a = 0 THEN b ELSE Min(Abs(a), b)) :
                        a % d = 0 /\ b % d = 0})

\* a fraction in lowest terms
Frac(num, den) == <<num \div Gcd(Abs(num), den), den \div Gcd(Abs(num), den)>>

\* the merged chain without the first point of the second part
merged_chain_joint_dropped(idx0, idx1, ori0, ori1) ==
    Stride(seg[idx0 + 1], 2 * ori0 - 1)
        \o Tail(Stride(seg[idx1 + 1], -2 * ori1 + 1))

\* update_segs, 1: the merged chain at idx0
merged_chain(idx0, idx1, ori0, ori1) ==
    Stride(seg[idx0 + 1], 2 * ori0 - 1) \o Stride(seg[idx1 + 1], -2 * ori1 + 1)

\* the start of idx0 and the end of idx1 as they are stored, whatever the
\* orientation flags
merged_ends_unoriented(idx0, idx1, ori0, ori1) ==
    <<segs[idx0 + 1][1], segs[idx1 + 1][2]>>

\* update_segs, 2: its start and end point
merged_ends(idx0, idx1, ori0, ori1) ==
    << Stride(segs[idx0 + 1], 2 * ori0 - 1)[1],
       Stride(segs[idx1 + 1], -2 * ori1 + 1)[2] >>

\* update_segs, 3: its mean, weighted by the numbers of points
merged_eps(idx0, idx1) ==
    LET n0 == num_points_segs[idx0 + 1]
        n1 == num_points_segs[idx1 + 1]
        e0 == eps_segs[idx0 + 1]
        e1 == eps_segs[idx1 + 1]
    IN  Frac(e0[1] * n0 * e1[2] + e1[1] * n1 * e0[2], e0[2] * e1[2] * (n0 + n1))

\* update_segs, 4: its number of points
total_points(idx0, idx1) == num_points_segs[idx0 + 1] + num_points_segs[idx1 + 1]

\* update idx0 and keep idx1
UpdateNoPop(sq, idx0, idx1, v) == [sq EXCEPT ![idx0 + 1] = v]

\* update idx0 and remove idx1
UpdateAndPop(sq, idx0, idx1, v) == DeleteAt([sq EXCEPT ![idx0 + 1] = v], idx1 + 1)

\* update_prob_matrix: remove row and column idx1, recompute row idx0 to
\* the right of the diagonal and column idx0 above it
update_prob_matrix(pm, idx0, idx1, sg, ep, d_thres, a_thres, e_thres, fac) ==
    LET cut == [r \in 1 .. Len(pm) - 1 |->
                   DeleteAt(DeleteAt(pm, idx1 + 1)[r], idx1 + 1)]
        swap(e) == <<e[1], e[3], e[2]>>
    IN  [r \in 1 .. Len(cut) |->
            [c \in 1 .. Len(cut) |->
                IF r = idx0 + 1 /\ c > r
                THEN compute_prob(sg[r], sg[c], ep[r], ep[c],
                                  d_thres, a_thres, e_thres, fac)
                ELSE IF c = idx0 + 1 /\ r < c
                THEN swap(compute_prob(sg[c], sg[r], ep[c], ep[r],
                                       d_thres, a_thres, e_thres, fac))
                ELSE cut[r][c]]]

\* seg_reconnection, 1: initialise the probability matrix
InitProbMatrix ==
    /\ pc = "reconnect"
    /\ prob_ma' = init_prob_matrix(segs, eps_segs, dis_thres, angle_thres,
                                   eps_thres, ellp_fac)
    /\ i_rec' = 0
    /\ pc' = "merge"
    /\ UNCHANGED <<raised, tracer_vars, seg, segs, eps_segs, num_points_segs,
                   last_merge, thres_vars, pipe_vars>>

\* seg_reconnection, 2.a - 2.d: one pass of the loop body
MergeStep ==
    /\ pc = "merge"
    /\ i_rec < 500
    /\ num_pos_reconnect >= 1
    /\ LET idx0 == ind_connect[1]
           idx1 == ind_connect[2]
           ori0 == ori_connect[1]
           ori1 == ori_connect[2]
           segs_up == UpdateAndPop(segs, idx0, idx1,
                                   merged_ends(idx0, idx1, ori0, ori1))
           eps_up  == UpdateAndPop(eps_segs, idx0, idx1, merged_eps(idx0, idx1))
       IN  /\ seg' = UpdateAndPop(seg, idx0, idx1,
                                  merged_chain(idx0, idx1, ori0, ori1))
           /\ segs' = segs_up
           /\ eps_segs' = eps_up
           /\ num_points_segs' = UpdateAndPop(num_points_segs, idx0, idx1,
                                              total_points(idx0, idx1))
           /\ prob_ma' = update_prob_matrix(prob_ma, idx0, idx1, segs_up, eps_up,
                                            dis_thres, angle_thres, eps_thres,
                                            ellp_fac)
           /\ last_merge' = [idx0 |-> idx0, idx1 |-> idx1,
                             ori0 |-> ori0, ori1 |-> ori1,
                             seg0 |-> seg[idx0 + 1], seg1 |-> seg[idx1 + 1],
                             n0 |-> num_points_segs[idx0 + 1],
                             n1 |-> num_points_segs[idx1 + 1]]
    /\ i_rec' = i_rec + 1
    /\ pc' = "merge"
    /\ UNCHANGED <<raised, tracer_vars, thres_vars, pipe_vars>>

\* seg_reconnection: the loop ends, return seg
ReconnectReturn ==
    /\ pc = "merge"
    /\ i_rec >= 500 \/ num_pos_reconnect < 1
    /\ pc' = IF pass = 0 THEN "reconnected" ELSE IF pass = 1 THEN "pass" ELSE "filter"
    /\ UNCHANGED <<raised, tracer_vars, rec_vars, thres_vars, pipe_vars>>

NoReconnection ==
    /\ segs = <<>>
    /\ eps_segs = <<>>
    /\ num_points_segs = <<>>
    /\ prob_ma = <<>>
    /\ i_rec = 0
    /\ last_merge = <<>>
    /\ dis_thres = 0
    /\ angle_thres = 0
    /\ eps_thres = 0
    /\ ellp_fac = 0

NoPipeline ==
    /\ pass = 0
    /\ params = <<>>
    /\ log_eps = <<>>
    /\ ret = <<>>

NoTracer ==
    /\ lkf_thin = {}
    /\ shape = <<0, 0>>
    /\ max_ind = 0
    /\ seg_f = <<>>
    /\ nodetect = {}
    /\ active_detection = <<>>
    /\ ind = 0
    /\ num_nodetect = 0

\* ---------------------------------------- 5. helper and filter functions
\* the filter with a strict comparison
filter_segs_strict(sg, lmin) ==
    SelectSeq(sg, LAMBDA c : Dist2(c[1], c[Len(c)]) * Scale * Scale > lmin * lmin
                             \/ lmin < 0)

\* the filter returning the kept segments last first
filter_segs_reversed(sg, lmin) ==
    Reverse(SelectSeq(sg, LAMBDA c : lmin <= 0
                                     \/ Dist2(c[1], c[Len(c)]) * Scale * Scale
                                           >= lmin * lmin))

\* filter_segs_lmin: keep the segments whose first and last point are at
\* least lmin apart (lmin in 1/Scale), in their order
filter_segs_lmin(sg, lmin) ==
    SelectSeq(sg, LAMBDA c : lmin <= 0
                             \/ Dist2(c[1], c[Len(c)]) * Scale * Scale >= lmin * lmin)

\* a direct call of filter_segs_lmin on seg, and one on what it returned
CallFilter ==
    /\ pc = "filter_call"
    /\ Len(ret) < 2
    /\ ret' = Append(ret, filter_segs_lmin(IF ret = <<>> THEN seg ELSE ret[1],
                                           params.lmin))
    /\ UNCHANGED <<pc, raised, tracer_vars, rec_vars, thres_vars, pass, params, log_eps>>

\* -------------------------------------------------- 6. detection function
\* a check that every threshold and the iteration cap are positive
params_positive(pr) ==
    /\ pr.max_ind > 0
    /\ pr.dog_thres > 0
    /\ pr.dis_thres > 0
    /\ pr.ellp_fac > 0
    /\ pr.angle_thres > 0
    /\ pr.eps_thres > 0
    /\ pr.lmin > 0

\* parameter checks of lkf_detect_eps_multday: there are none
params_accepted(pr) == TRUE

\* a first pass as wide as the default second one
first_pass_dis_thres_wide == 4 * Scale

\* the first reconnection pass: dis_thres 1.5, angle_thres 50, ellp_fac 1
first_pass_dis_thres == (3 * Scale) \div 2
first_pass_angle_thres == 50
first_pass_ellp_fac == 1

\* lkf_detect_eps_multday up to the call of detect_segments: preprocessing,
\* DoG filter and thinning produce lkf_thin
Preprocess ==
    /\ pc = "call"
    /\ IF params_accepted(params)
       THEN /\ pc' = "start"
            /\ raised' = raised
       ELSE /\ pc' = "error"
            /\ raised' = "ConfigError"
    /\ max_ind' = params.max_ind
    /\ UNCHANGED <<lkf_thin, shape, seg_f, nodetect, active_detection, ind,
                   num_nodetect, rec_vars, thres_vars, pipe_vars>>

\* the valid points of a row of the tracer's array
ValidPoints(row) == SelectSeq(row, LAMBDA q : q # NaN)

\* convert the array to a list of chains and drop the chains that are only
\* points (i.size > 2 keeps two points and more)
chain_list(arr) ==
    SelectSeq([a \in 1 .. Len(arr) |-> ValidPoints(arr[a])],
              LAMBDA c : 2 * Len(c) > 2)

ConvertToList ==
    /\ pc = "traced"
    /\ params # <<>>
    /\ seg' = chain_list(seg_f)
    /\ pc' = "listed"
    /\ UNCHANGED <<raised, tracer_vars, segs, eps_segs, num_points_segs, prob_ma,
                   i_rec, last_merge, thres_vars, pipe_vars>>

RECURSIVE SumLogEps(_)
SumLogEps(c) == IF c = <<>> THEN 0 ELSE log_eps[c[1]] + SumLogEps(Tail(c))

\* compute_mn_eps: the mean of log_eps over the points of each segment
compute_mn_eps(sg) == [k \in 1 .. Len(sg) |-> Frac(SumLogEps(sg[k]), Len(sg[k]))]

\* reconnect_segments up to its call of seg_reconnection, for the first
\* pass (fixed thresholds) and the second (the caller's)
ReconnectSegments ==
    /\ pc \in {"listed", "pass"}
    /\ pass' = IF pc = "listed" THEN 1 ELSE 2
    /\ eps_segs' = compute_mn_eps(seg)
    /\ num_points_segs' = [k \in 1 .. Len(seg) |-> Len(seg[k])]
    /\ segs' = [k \in 1 .. Len(seg) |-> <<seg[k][1], seg[k][Len(seg[k])]>>]
    /\ dis_thres' = IF pc = "listed" THEN first_pass_dis_thres ELSE params.dis_thres
    /\ angle_thres' = IF pc = "listed" THEN first_pass_angle_thres
                      ELSE params.angle_thres
    /\ ellp_fac' = IF pc = "listed" THEN first_pass_ellp_fac ELSE params.ellp_fac
    /\ eps_thres' = params.eps_thres
    /\ pc' = "reconnect"
    /\ UNCHANGED <<raised, tracer_vars, seg, prob_ma, i_rec, last_merge, params,
                   log_eps, ret>>

\* filter too short segments
FilterShort ==
    /\ pc = "filter"
    /\ seg' = filter_segs_lmin(seg, params.lmin)
    /\ pc' = "filtered"
    /\ UNCHANGED <<raised, tracer_vars, segs, eps_segs, num_points_segs, prob_ma,
                   i_rec, last_merge, thres_vars, pipe_vars>>

\* convert to indexes of the original input image
ShiftIndexes ==
    /\ pc = "filtered"
    /\ seg' = [k \in 1 .. Len(seg) |->
                  [j \in 1 .. Len(seg[k]) |-> <<seg[k][j][1] + 1, seg[k][j][2] + 1>>]]
    /\ pc' = "done"
    /\ UNCHANGED <<raised, tracer_vars, segs, eps_segs, num_points_segs, prob_ma,
                   i_rec, last_merge, thres_vars, pipe_vars>>

\* ------------------------------------------------------ bounded inputs
InteriorOf(n) == (0 .. n - 1) \X (0 .. n - 1)

\* subsets of S with at most k elements
RECURSIVE SubsetsUpTo(_, _)
SubsetsUpTo(S, k) ==
    IF k = 0 \/ S = {} THEN {{}}
    ELSE LET e == CHOOSE x \in S : TRUE
             rest == S \ {e}
         IN  SubsetsUpTo(rest, k) \cup {T \cup {e} : T \in SubsetsUpTo(rest, k - 1)}

\* grid of the points of directly given segments: RecDim x RecDim
RecDim == 4
\* a directly given chain has 2 .. MaxChain points
MaxChain == 3
\* grid of the end points of the chains given to the length filter
FilterDim == 2
\* the length filter is given at most MaxList chains
MaxList == 3
\* the pipeline is run on masks with at most MaxPixPipe set pixels
MaxPixPipe == 3

Dirs == {d \in {-1, 0, 1} \X {-1, 0, 1} : d # <<0, 0>>}

StraightChain(p, d, len) ==
    [k \in 1 .. len |-> <<p[1] + (k - 1) * d[1], p[2] + (k - 1) * d[2]>>]

InGrid(c, n) == \A k \in 1 .. Len(c) : c[k] \in (0 .. n - 1) \X (0 .. n - 1)

\* every straight chain of 2 .. MaxChain neighbouring points on the grid
ChainPool ==
    {c \in {StraightChain(p, d, len) :
               p \in (0 .. RecDim - 1) \X (0 .. RecDim - 1), d \in Dirs,
               len \in 2 .. MaxChain} : InGrid(c, RecDim)}

\* the chains that start at <<1, 1>>
AnchorPool == {c \in ChainPool : c[1] = <<1, 1>>}

\* threshold sets <<dis_thres, angle_thres, eps_thres, ellp_fac>>: the first
\* pass, the first pass with a narrow ellipse, the defaults
ThresholdSets ==
    { <<first_pass_dis_thres, first_pass_angle_thres, Scale \div 2, 1>>,
      <<first_pass_dis_thres, first_pass_angle_thres, Scale \div 2, 3>>,
      <<4 * Scale, 35, Scale \div 2, 3>> }

\* means offered for a directly given segment, in 1/Scale
MeanChoices == {0, (3 * Scale) \div 10, Scale \div 2, (6 * Scale) \div 10}

EndsOf(sg) == [k \in 1 .. Len(sg) |-> <<sg[k][1], sg[k][Len(sg[k])]>>]

\* seg_reconnection called on two straight chains, one of them anchored, in
\* either index order
InitRec ==
    /\ pc = "reconnect"
    /\ raised = ""
    /\ NoTracer
    /\ pass = 0
    /\ params = <<>>
    /\ log_eps = <<>>
    /\ ret = <<>>
    /\ \E a \in AnchorPool, b \in ChainPool :
          seg \in {<<a, b>>, <<b, a>>}
    /\ segs = EndsOf(seg)
    /\ num_points_segs = [k \in 1 .. Len(seg) |-> Len(seg[k])]
    /\ \E m \in MeanChoices : eps_segs = <<<<0, 1>>, <<m, 1>>>>
    /\ \E t \in ThresholdSets :
          /\ dis_thres = t[1]
          /\ angle_thres = t[2]
          /\ eps_thres = t[3]
          /\ ellp_fac = t[4]
    /\ prob_ma = <<>>
    /\ i_rec = 0
    /\ last_merge = <<>>

NextRec == InitProbMatrix \/ MergeStep \/ ReconnectReturn

SpecRec == InitRec /\ [][NextRec]_vars

\* the chains of two points in rows 0 and 1 that run along a row or a
\* diagonal
RowPool ==
    {c \in ChainPool : /\ Len(c) = 2
                       /\ c[1][1] <= 1
                       /\ c[2][1] <= 1
                       /\ c[1][2] # c[2][2]}

\* means offered for three segments
MeanTriples ==
    { <<<<0, 1>>, <<0, 1>>, <<0, 1>>>>,
      <<<<0, 1>>, <<0, 1>>, <<(3 * Scale) \div 10, 1>>>>,
      <<<<0, 1>>, <<(3 * Scale) \div 10, 1>>, <<(6 * Scale) \div 10, 1>>>> }

\* the thresholds of ThresholdSets and one set with a negative eps_thres
ManyThresholdSets ==
    ThresholdSets \cup {<<(3 * Scale) \div 2, 50, -(Scale \div 2), 1>>}

\* seg_reconnection called on three chains of RowPool
InitRecMany ==
    /\ pc = "reconnect"
    /\ raised = ""
    /\ NoTracer
    /\ pass = 0
    /\ params = <<>>
    /\ log_eps = <<>>
    /\ ret = <<>>
    /\ \E a \in RowPool, b \in RowPool, c \in RowPool : seg = <<a, b, c>>
    /\ segs = EndsOf(seg)
    /\ num_points_segs = [k \in 1 .. Len(seg) |-> Len(seg[k])]
    /\ eps_segs \in MeanTriples
    /\ \E t \in ManyThresholdSets :
          /\ dis_thres = t[1]
          /\ angle_thres = t[2]
          /\ eps_thres = t[3]
          /\ ellp_fac = t[4]
    /\ prob_ma = <<>>
    /\ i_rec = 0
    /\ last_merge = <<>>

SpecRecMany == InitRecMany /\ [][NextRec]_vars

\* the lists of at most n elements of S
RECURSIVE ListsUpTo(_, _)
ListsUpTo(S, n) ==
    IF n = 0 THEN {<<>>}
    ELSE ListsUpTo(S, n - 1)
         \cup {Append(l, c) : l \in {m \in ListsUpTo(S, n - 1) : Len(m) = n - 1},
                              c \in S}

\* a direct call of update_segs(ind_connect, ori_connect, seg, segs,
\* eps_segs, num_points_segs) with the arguments held in params
UpdateSegs ==
    /\ pc = "update_call"
    /\ LET idx0 == params.ind_connect[1]
           idx1 == params.ind_connect[2]
           ori0 == params.ori_connect[1]
           ori1 == params.ori_connect[2]
       IN  /\ seg' = UpdateAndPop(seg, idx0, idx1,
                                  merged_chain(idx0, idx1, ori0, ori1))
           /\ segs' = UpdateAndPop(segs, idx0, idx1,
                                   merged_ends(idx0, idx1, ori0, ori1))
           /\ eps_segs' = UpdateAndPop(eps_segs, idx0, idx1, merged_eps(idx0, idx1))
           /\ num_points_segs' = UpdateAndPop(num_points_segs, idx0, idx1,
                                              total_points(idx0, idx1))
           /\ last_merge' = [idx0 |-> idx0, idx1 |-> idx1,
                             ori0 |-> ori0, ori1 |-> ori1,
                             seg0 |-> seg[idx0 + 1], seg1 |-> seg[idx1 + 1],
                             n0 |-> num_points_segs[idx0 + 1],
                             n1 |-> num_points_segs[idx1 + 1]]
    /\ pc' = "updated"
    /\ UNCHANGED <<raised, tracer_vars, prob_ma, i_rec, thres_vars, pipe_vars>>

\* chains offered to update_segs: the anchored ones that run right or down
\* and the one point <<0, 0>>
UpdatePool ==
    {c \in AnchorPool : c[2] \in {<<1, 2>>, <<2, 1>>}} \cup {<<<<0, 0>>>>}

\* update_segs called on 2 .. MaxList chains, for any pair of indices
\* idx0 < idx1 and any orientation flags
InitUpdate ==
    /\ pc = "update_call"
    /\ raised = ""
    /\ NoTracer
    /\ seg \in {l \in ListsUpTo(UpdatePool, MaxList) : Len(l) >= 2}
    /\ segs = EndsOf(seg)
    /\ num_points_segs = [k \in 1 .. Len(seg) |-> Len(seg[k])]
    /\ \E m \in MeanChoices : eps_segs = [k \in 1 .. Len(seg) |-> <<k * m, 1>>]
    /\ prob_ma = <<>>
    /\ i_rec = 0
    /\ last_merge = <<>>
    /\ dis_thres = 0
    /\ angle_thres = 0
    /\ eps_thres = 0
    /\ ellp_fac = 0
    /\ pass = 0
    /\ \E i0 \in 0 .. Len(seg) - 2, o0 \in {0, 1}, o1 \in {0, 1} :
          \E i1 \in i0 + 1 .. Len(seg) - 1 :
             params = [ind_connect |-> <<i0, i1>>, ori_connect |-> <<o0, o1>>]
    /\ log_eps = <<>>
    /\ ret = <<>>

NextUpdate == UpdateSegs

SpecUpdate == InitUpdate /\ [][NextUpdate]_vars

\* filter_segs_lmin called on chains from the origin to a point of the grid
FilterPool ==
    {<<<<0, 0>>, q>> : q \in (0 .. FilterDim - 1) \X (0 .. FilterDim - 1)}

LminChoices == {-Scale, 0, Scale, (3 * Scale) \div 2, 2 * Scale}

InitFilter ==
    /\ pc = "filter_call"
    /\ raised = ""
    /\ NoTracer
    /\ NoReconnection
    /\ seg \in ListsUpTo(FilterPool, MaxList)
    /\ pass = 0
    /\ \E l \in LminChoices : params = [lmin |-> l]
    /\ log_eps = <<>>
    /\ ret = <<>>

NextFilter == CallFilter

SpecFilter == InitFilter /\ [][NextFilter]_vars

\* the signature's defaults of lkf_detect_eps_multday, lengths in 1/Scale
DefaultParams ==
    [max_ind |-> DefaultMaxInd, dog_thres |-> 0, dis_thres |-> 4 * Scale,
     ellp_fac |-> 3, angle_thres |-> 35, eps_thres |-> Scale \div 2,
     lmin |-> 4 * Scale]

\* parameters that fit the small grid
SmallParams ==
    [max_ind |-> DefaultMaxInd, dog_thres |-> Scale, dis_thres |-> 2 * Scale,
     ellp_fac |-> 1, angle_thres |-> 50, eps_thres |-> Scale \div 2,
     lmin |-> Scale]

ZeroParams ==
    [max_ind |-> 0, dog_thres |-> 0, dis_thres |-> 0, ellp_fac |-> 0,
     angle_thres |-> 0, eps_thres |-> 0, lmin |-> 0]

NegativeParams ==
    [max_ind |-> -1, dog_thres |-> -Scale, dis_thres |-> -Scale, ellp_fac |-> -1,
     angle_thres |-> -35, eps_thres |-> -Scale, lmin |-> -Scale]

\* a uniform field and one that grows by one unit per column
UniformField == [p \in InteriorOf(Dim) |-> 0]
GradientField == [p \in InteriorOf(Dim) |-> p[2] * Scale]

PipelineInputs ==
    { <<DefaultParams, UniformField>>, <<SmallParams, UniformField>>,
      <<SmallParams, GradientField>>, <<ZeroParams, UniformField>>,
      <<NegativeParams, UniformField>> }

\* lkf_detect_eps_multday called with a field whose thinned mask is any
\* set of at most MaxPixPipe interior pixels
Init ==
    /\ pc = "call"
    /\ raised = ""
    /\ shape = <<Dim, Dim>>
    /\ lkf_thin \in {Pad(m) : m \in SubsetsUpTo(InteriorOf(Dim), MaxPixPipe)}
    /\ max_ind = 0
    /\ seg_f = <<>>
    /\ nodetect = {}
    /\ active_detection = <<>>
    /\ ind = 0
    /\ num_nodetect = 0
    /\ seg = <<>>
    /\ NoReconnection
    /\ pass = 0
    /\ \E i \in PipelineInputs :
          /\ params = i[1]
          /\ log_eps = i[2]
    /\ ret = <<>>

Next ==
    \/ Preprocess
    \/ FindStartingPoints
    \/ DetectionLoop
    \/ LoopExit
    \/ ConvertToList
    \/ ReconnectSegments
    \/ InitProbMatrix
    \/ MergeStep
    \/ ReconnectReturn
    \/ FilterShort
    \/ ShiftIndexes

Spec == Init /\ [][Next]_vars

\* detect_segments called directly
NextTrace == FindStartingPoints \/ DetectionLoop \/ LoopExit

\* the longest straight run offered to the tracer
MaxRun == 10

RunDirs == {<<0, 1>>, <<1, 0>>, <<1, 1>>, <<1, -1>>}

\* detect_segments called on one straight run of 2 .. MaxRun pixels,
\* horizontal, vertical or diagonal, anywhere on a MaxRun x MaxRun interior
InitRun ==
    /\ pc = "start"
    /\ raised = ""
    /\ shape = <<MaxRun, MaxRun>>
    /\ \E p \in (0 .. MaxRun - 1) \X (0 .. MaxRun - 1), d \in RunDirs,
          len \in 2 .. MaxRun :
          /\ InGrid(StraightChain(p, d, len), MaxRun)
          /\ lkf_thin = Pad({StraightChain(p, d, len)[k] : k \in 1 .. len})
    /\ max_ind \in {DefaultMaxInd}
    /\ seg_f = <<>>
    /\ nodetect = {}
    /\ active_detection = <<>>
    /\ ind = 0
    /\ num_nodetect = 0
    /\ seg = <<>>
    /\ NoReconnection
    /\ NoPipeline

SpecRun == InitRun /\ [][NextTrace]_vars

\* ------------------------------------- combination of the binary maps
SliceCols == 2
MaxSlices == 2

\* a cell of one time slice: not finite after preprocessing, or finite with
\* the DoG response at most or above dog_thres
CellCases == {"nan", "below", "above"}

\* np.where(np.isfinite(preprocessed_slices), dog_filtered_slices, np.nan)
masked_response(v) ==
    IF v = "nan" THEN NaN ELSE IF v = "above" THEN <<1>> ELSE <<0>>

\* np.sum: NaN as soon as one entry is NaN
RECURSIVE np_sum(_)
np_sum(col) ==
    IF col = <<>> THEN <<0>>
    ELSE LET rest == np_sum(Tail(col))
         IN  IF Head(col) = NaN \/ rest = NaN THEN NaN
             ELSE <<Head(col)[1] + rest[1]>>

\* lkf_detect: the sum over the slices is a number above 0
lkf_detect_of(slices) ==
    [c \in DOMAIN slices[1] |->
        LET lkf_detect_multday ==
                np_sum([k \in 1 .. Len(slices) |-> masked_response(slices[k][c])])
        IN  lkf_detect_multday # NaN /\ lkf_detect_multday[1] > 0]

\* the binary maps of the slices in params are combined into ret[1]
CombineBinaryMaps ==
    /\ pc = "combine_call"
    /\ pc' = "combined"
    /\ ret' = <<lkf_detect_of(params)>>
    /\ UNCHANGED <<raised, lkf_thin, shape, max_ind, seg_f, nodetect,
                   active_detection, ind, num_nodetect, rec_vars, thres_vars,
                   pass, params, log_eps>>

\* one to MaxSlices slices of one row of SliceCols cells
InitCombine ==
    /\ pc = "combine_call"
    /\ raised = ""
    /\ NoTracer
    /\ NoReconnection
    /\ seg = <<>>
    /\ pass = 0
    /\ log_eps = <<>>
    /\ ret = <<>>
    /\ \E n \in 1 .. MaxSlices :
          params \in [1 .. n -> [0 .. SliceCols - 1 -> CellCases]]

NextCombine == CombineBinaryMaps

SpecCombine == InitCombine /\ [][NextCombine]_vars

\* --------------------------------------- dataset.py: detect_lkfs
\* time steps of the data set
MaxStep == 3

\* a set of numbers as an ascending list
RECURSIVE Ascending(_)
Ascending(S) ==
    IF S = {} THEN <<>>
    ELSE LET m == CHOOSE v \in S : \A w \in S : v <= w
         IN  <<m>> \o Ascending(S \ {m})

\* self.ind_detect: the numbers of the lkf files found in lkfpath when
\* force_redetect is set, empty otherwise
ind_detect_of(force_redetect, files) == IF force_redetect THEN files ELSE {}

\* the time steps the loop visits: [int(j) for j in self.indexes if j+1 not
\* in self.ind_detect]
steps_to_detect(indexes, force_redetect, files) ==
    SelectSeq(indexes, LAMBDA j : (j + 1) \notin ind_detect_of(force_redetect, files))

\* detect_lkfs up to the loop: params.todo holds the steps still to visit
CheckDetected ==
    /\ pc = "detect_call"
    /\ params' = [params EXCEPT
                     !.todo = steps_to_detect(params.indexes,
                                              params.force_redetect, params.files)]
    /\ pc' = "detect_loop"
    /\ UNCHANGED <<raised, tracer_vars, rec_vars, thres_vars, pass, log_eps, ret>>

\* one pass of the loop: the step is detected and its file lkf_..._(it+1)
\* is saved; ret lists the file numbers written
DetectAndSave ==
    /\ pc = "detect_loop"
    /\ params.todo # <<>>
    /\ ret' = Append(ret, Head(params.todo) + 1)
    /\ params' = [params EXCEPT !.todo = Tail(params.todo)]
    /\ UNCHANGED <<pc, raised, tracer_vars, rec_vars, thres_vars, pass, log_eps>>

\* the loop is through
DetectReturn ==
    /\ pc = "detect_loop"
    /\ params.todo = <<>>
    /\ pc' = "detect_done"
    /\ UNCHANGED <<raised, tracer_vars, rec_vars, thres_vars, pipe_vars>>

\* detect_lkfs called with any list of time steps, either value of
\* force_redetect and any set of lkf files already in lkfpath
InitDetect ==
    /\ pc = "detect_call"
    /\ raised = ""
    /\ NoTracer
    /\ NoReconnection
    /\ seg = <<>>
    /\ pass = 0
    /\ log_eps = <<>>
    /\ ret = <<>>
    /\ \E requested \in SUBSET (0 .. MaxStep - 1), f \in BOOLEAN,
          existing \in SUBSET (1 .. MaxStep) :
          params = [indexes |-> Ascending(requested), force_redetect |-> f,
                    files |-> existing, todo |-> <<>>]

NextDetect == CheckDetected \/ DetectAndSave \/ DetectReturn

SpecDetect == InitDetect /\ [][NextDetect]_vars

\* ------------------------------------------------ tracer on any mask
InitTrace ==
    /\ pc = "start"
    /\ raised = ""
    /\ shape = <<Dim, Dim>>
    /\ lkf_thin \in {Pad(m) : m \in SubsetsUpTo(InteriorOf(Dim), MaxPix)}
    /\ max_ind \in {CapSmall, DefaultMaxInd}
    /\ seg_f = <<>>
    /\ nodetect = {}
    /\ active_detection = <<>>
    /\ ind = 0
    /\ num_nodetect = 0
    /\ seg = <<>>
    /\ NoReconnection
    /\ NoPipeline

SpecTrace == InitTrace /\ [][NextTrace]_vars

\* ================================================================ claims
\* the interior coordinates of the set pixels of the mask
MaskPixels == {<<p[1] - 1, p[2] - 1>> : p \in lkf_thin}

\* the non-NaN points of chain a of the tracer's result, as a set
ChainPoints(a) == {seg_f[a][k] : k \in {j \in 1 .. Len(seg_f[a]) : seg_f[a][j] # NaN}}

Adjacent(p, q) == p # q /\ Abs(p[1] - q[1]) <= 1 /\ Abs(p[2] - q[2]) <= 1

SetNeighbours(S, p) == {q \in S : Adjacent(p, q)}

\* C1: after detect_segments returns, no interior coordinate occurs in
\* more than one of the returned chains (non-NaN points only).
C1_NoCoordinateInTwoChains ==
    pc = "traced" =>
        \A a, b \in 1 .. Len(seg_f) : a # b => ChainPoints(a) \cap ChainPoints(b) = {}

\* the mask is one straight run: its pixels lie on one line of unit steps
\* between two end pixels that have one set neighbour each
RunEnds == {p \in MaskPixels : Cardinality(SetNeighbours(MaskPixels, p)) = 1}

\* C2 as stated: for a mask that is one straight run of N >= 2 pixels the
\* tracer returns exactly one chain of at least 2 points, and that chain
\* holds all N pixels, each once.
C2_OneChainHoldsTheRun ==
    pc = "traced" =>
        LET chains == chain_list(seg_f)
        IN  /\ Len(chains) = 1
            /\ Len(chains[1]) = Cardinality(MaskPixels)
            /\ {chains[1][k] : k \in 1 .. Len(chains[1])} = MaskPixels

\* chain c walks in unit steps of one direction
StraightWalk(c) ==
    \A k \in 1 .. Len(c) - 2 : Sub(c[k + 1], c[k]) = Sub(c[k + 2], c[k + 1])

\* C2 as the tracer behaves: for a mask that is one straight run of N >= 2
\* pixels the tracer returns exactly two chains, one from each end pixel,
\* each walking along the line toward the middle and holding (N + 1) \div 2
\* points; together they hold all N pixels, so each pixel once when N is
\* even, and the middle pixel as the last point of both when N is odd.
C2_OneChainFromEachEnd ==
    pc = "traced" =>
        LET c1 == ValidPoints(seg_f[1])
            c2 == ValidPoints(seg_f[2])
            N  == Cardinality(MaskPixels)
        IN  /\ raised = ""
            /\ Len(seg_f) = 2
            /\ {c1[1], c2[1]} = RunEnds
            /\ c1[1] # c2[1]
            /\ Len(c1) = (N + 1) \div 2
            /\ Len(c2) = (N + 1) \div 2
            /\ StraightWalk(c1)
            /\ StraightWalk(c2)
            /\ \A k \in 1 .. Len(c1) - 1 : Adjacent(c1[k], c1[k + 1])
            /\ \A k \in 1 .. Len(c2) - 1 : Adjacent(c2[k], c2[k + 1])
            /\ ChainPoints(1) \cup ChainPoints(2) = MaskPixels
            /\ N % 2 = 0 => ChainPoints(1) \cap ChainPoints(2) = {}
            /\ N % 2 = 1 => c1[Len(c1)] = c2[Len(c2)]

\* a vertical column of ten pixels has been traced into its two chains,
\* rows 0 .. 4 from the top and rows 9 .. 5 from the bottom
C2_Witness ==
    /\ pc = "traced"
    /\ MaskPixels = {<<r, 0>> : r \in 0 .. 9}
    /\ Len(seg_f) = 2
    /\ ValidPoints(seg_f[1]) = [k \in 1 .. 5 |-> <<k - 1, 0>>]
    /\ ValidPoints(seg_f[2]) = [k \in 1 .. 5 |-> <<10 - k, 0>>]

\* the pixels of S connected to those of F
RECURSIVE Reach(_, _)
Reach(S, F) ==
    LET more == {q \in S \ F : \E p \in F : Adjacent(p, q)}
    IN  IF more = {} THEN F ELSE Reach(S, F \cup more)

\* the mask is one closed loop: connected, of four pixels or more, every
\* pixel with exactly two set neighbours
ClosedLoop ==
    /\ Cardinality(MaskPixels) >= 4
    /\ \A p \in MaskPixels : Cardinality(SetNeighbours(MaskPixels, p)) = 2
    /\ Reach(MaskPixels, {CHOOSE p \in MaskPixels : TRUE}) = MaskPixels

\* C3: for a mask that is one closed loop detect_segments, here with its
\* default cap, returns within the iteration cap and at least one chain
\* survives the removal of the chains of one point.
C3_LoopYieldsChain ==
    (pc = "traced" /\ ClosedLoop /\ max_ind = DefaultMaxInd) =>
        /\ ind <= max_ind + 1
        /\ chain_list(seg_f) # <<>>

\* the points of a chain with their multiplicities
PointBag(c) == [p \in {c[k] : k \in 1 .. Len(c)} |->
                   Cardinality({k \in 1 .. Len(c) : c[k] = p})]

\* C4: a merge by update_segs leaves at idx0 a segment whose number of
\* points is that of segment idx0 plus that of segment idx1 before the
\* merge, whatever the two orientation flags; no point is lost or added.
C4_MergeAddsPointCounts ==
    last_merge # <<>> =>
        LET merged == seg[last_merge.idx0 + 1]
            both   == last_merge.seg0 \o last_merge.seg1
        IN  /\ Len(merged) = Len(last_merge.seg0) + Len(last_merge.seg1)
            /\ num_points_segs[last_merge.idx0 + 1] = last_merge.n0 + last_merge.n1
            /\ PointBag(merged) = PointBag(both)

\* update_segs has merged two chains of three points with flags 0 and 1
C4_Witness ==
    /\ pc = "updated"
    /\ last_merge # <<>>
    /\ last_merge.ori0 = 0
    /\ last_merge.ori1 = 1
    /\ Len(last_merge.seg0) = 3
    /\ Len(last_merge.seg1) = 3
    /\ Len(seg[last_merge.idx0 + 1]) = 6

\* the two segments seg_reconnection was called with
GivenPair == IF last_merge = <<>> THEN seg ELSE <<last_merge.seg0, last_merge.seg1>>

Direction(c) == Sub(c[Len(c)], c[1])

Cross(v, w) == v[1] * w[2] - v[2] * w[1]

\* both chains lie on one line
Collinear(I, J) ==
    /\ Cross(Direction(I), Direction(J)) = 0
    /\ Cross(Direction(I), Sub(J[1], I[1])) = 0

\* position of point p along chain I, in units of |Direction(I)|^2
Along(I, p) == Dot(Sub(p, I[1]), Direction(I))

\* J lies wholly before the start or wholly beyond the end of I
Apart(I, J) ==
    LET len == Dot(Direction(I), Direction(I))
    IN  \/ Along(I, J[1]) > len /\ Along(I, J[Len(J)]) > len
        \/ Along(I, J[1]) < 0 /\ Along(I, J[Len(J)]) < 0

\* squared distance of the nearest end points of I and J
NearestDist2(I, J) ==
    LET ds == {Dist2(p, q) : p \in {I[1], I[Len(I)]}, q \in {J[1], J[Len(J)]}}
    IN  CHOOSE d \in ds : \A o \in ds : d <= o

\* the nearest end points are at most dis_thres apart
DistWithin(I, J) == NearestDist2(I, J) * Scale * Scale <= dis_thres * dis_thres

\* C5: two collinear segments (directions differing by 0 <= angle_thres)
\* whose means are equal (differing by 0 <= eps_thres) and whose nearest
\* end points are at most dis_thres apart are returned by seg_reconnection
\* as one segment, however they face each other and in either index order.
C5_CollinearPairMerges ==
    (/\ pc = "reconnected"
     /\ last_merge = <<>>
     /\ Collinear(seg[1], seg[2])
     /\ Apart(seg[1], seg[2])
     /\ eps_segs[1] = eps_segs[2]
     /\ DistWithin(seg[1], seg[2])) => Len(seg) = 1

\* some nearest end points of I and J are offset across the direction of I
PerpendicularOffset(I, J) ==
    \E p \in {I[1], I[Len(I)]}, q \in {J[1], J[Len(J)]} :
        /\ Dist2(p, q) = NearestDist2(I, J)
        /\ p # q
        /\ Dot(Sub(q, p), Direction(I)) = 0

\* the distance of the nearest end points, weighted across the direction
\* by ellp_fac, exceeds dis_thres
WeightedBeyond(I, J) ==
    ellp_fac * NearestDist2(I, J) * Scale * Scale > dis_thres * dis_thres

\* C6: two parallel segments within the distance threshold whose nearest
\* end points are offset across their direction, with ellp_fac so large
\* that the weighted distance exceeds dis_thres, are not merged by
\* seg_reconnection, while two segments at the same distance along their
\* direction, their means equal, are merged.
C6_AcrossRejectedAlongMerged ==
    pc = "reconnected" =>
        /\ (/\ Cross(Direction(GivenPair[1]), Direction(GivenPair[2])) = 0
            /\ PerpendicularOffset(GivenPair[1], GivenPair[2])
            /\ DistWithin(GivenPair[1], GivenPair[2])
            /\ WeightedBeyond(GivenPair[1], GivenPair[2])) => last_merge = <<>>
        /\ (/\ last_merge = <<>>
            /\ Collinear(seg[1], seg[2])
            /\ Apart(seg[1], seg[2])
            /\ eps_segs[1] = eps_segs[2]
            /\ DistWithin(seg[1], seg[2])
            /\ WeightedBeyond(seg[1], seg[2])) => Len(seg) = 1

\* the distance between the first and the last point of c is >= lmin
LongEnough(c) ==
    \/ params.lmin <= 0
    \/ Dist2(c[1], c[Len(c)]) * Scale * Scale >= params.lmin * params.lmin

\* C7: filter_segs_lmin returns exactly the segments whose first and last
\* point are at least lmin apart: none that is shorter, and every one at
\* exactly lmin or more.
C7_KeepsExactlyTheLongEnough ==
    Len(ret) >= 1 =>
        /\ \A j \in 1 .. Len(ret[1]) : LongEnough(ret[1][j])
        /\ \A k \in 1 .. Len(seg) :
              LongEnough(seg[k]) => \E j \in 1 .. Len(ret[1]) : ret[1][j] = seg[k]
        /\ Len(ret[1]) = Cardinality({k \in 1 .. Len(seg) : LongEnough(seg[k])})

\* the filter was given a segment of length 0 and one of length exactly
\* lmin = 1 and returned the second only
C7_Witness ==
    /\ Len(ret) >= 1
    /\ params.lmin = Scale
    /\ seg = << <<<<0, 0>>, <<0, 0>>>>, <<<<0, 0>>, <<0, 1>>>> >>
    /\ ret[1] = << <<<<0, 0>>, <<0, 1>>>> >>

\* a is b with some elements left out
RECURSIVE IsSubsequence(_, _)
IsSubsequence(a, b) ==
    IF a = <<>> THEN TRUE
    ELSE IF b = <<>> THEN FALSE
    ELSE IF Head(a) = Head(b) THEN IsSubsequence(Tail(a), Tail(b))
    ELSE IsSubsequence(a, Tail(b))

\* C8: a call of filter_segs_lmin leaves its input list and the segments
\* in it unchanged, returns a subsequence of the input in the input's
\* order, and returns its own output unchanged when applied to it again.
C8_InputKeptOutputInOrder ==
    [][ /\ seg' = seg
        /\ IsSubsequence(ret'[1], seg)
        /\ Len(ret') = 2 => ret'[2] = ret'[1] ]_vars

\* the filter was applied twice to three segments of which it kept two
\* different ones and dropped the one between them
C8_Witness ==
    /\ Len(ret) = 2
    /\ Len(seg) = 3
    /\ Len(ret[1]) = 2
    /\ ret[1][1] = seg[1]
    /\ ret[1][2] = seg[3]
    /\ seg[1] # seg[3]

\* C9: for a mask with no set pixel the tracer does not enter its loop and
\* returns no chain, neither reconnection pass merges anything, and the
\* pipeline returns the empty list without an error.
C9_EmptyMaskGivesEmptyList ==
    lkf_thin = {} =>
        /\ ind = 0
        /\ num_nodetect = 0
        /\ seg_f = <<>>
        /\ last_merge = <<>>
        /\ i_rec = 0
        /\ seg = <<>>
        /\ raised = ""
        /\ pc # "error"

\* the pipeline has returned for the empty mask, after both passes
C9_Witness ==
    /\ lkf_thin = {}
    /\ pc = "done"
    /\ pass = 2
    /\ seg = <<>>

\* a threshold or the iteration cap is zero or negative
NonPositive(pr) ==
    \/ pr.max_ind <= 0
    \/ pr.dog_thres <= 0
    \/ pr.dis_thres <= 0
    \/ pr.ellp_fac <= 0
    \/ pr.angle_thres <= 0
    \/ pr.eps_thres <= 0
    \/ pr.lmin <= 0

\* C10 as stated: with a zero or negative threshold or iteration cap the
\* detection fails with a configuration error before any tracing,
\* reconnection or filtering step.
C10_NonPositiveFailsFast ==
    NonPositive(params) =>
        \/ pc = "call"
        \/ pc = "error" /\ raised = "ConfigError"

\* C10 as the code behaves: no parameter is checked; with a zero or
\* negative threshold or iteration cap no configuration error is raised
\* and the tracer, the second reconnection pass and the length filter
\* work with the values as given.
C10_NoConfigurationCheck ==
    NonPositive(params) =>
        /\ raised # "ConfigError"
        /\ pc # "call" => max_ind = params.max_ind
        /\ pass = 2 =>
              /\ dis_thres = params.dis_thres
              /\ angle_thres = params.angle_thres
              /\ eps_thres = params.eps_thres
              /\ ellp_fac = params.ellp_fac
        /\ pc = "filtered" =>
              \A k \in 1 .. Len(seg) : LongEnough(seg[k])

\* the pipeline has returned a segment although every parameter is negative
C10_Witness ==
    /\ pc = "done"
    /\ params.lmin < 0
    /\ params.dis_thres < 0
    /\ params.max_ind < 0
    /\ seg # <<>>

\* the set pixels of the mask without a set neighbour
IsolatedPixels == {p \in MaskPixels : SetNeighbours(MaskPixels, p) = {}}

\* C11: every chain handed from tracing to reconnection, and every segment
\* after it up to the output, has at least 2 points, and the chain seeded
\* at an isolated pixel, which is only that point, is not among them.
C11_OnlyChainsOfTwoPoints ==
    pc \in {"listed", "reconnect", "merge", "pass", "filter", "filtered"} =>
        \A k \in 1 .. Len(seg) :
            /\ Len(seg[k]) >= 2
            /\ seg[k][1] \notin IsolatedPixels

\* C12: the detection loop of detect_segments never executes more than
\* max_ind iterations (ind counts the iterations executed).
C12_AtMostMaxIndIterations == ind <= max_ind

\* C13: seg_reconnection terminates: every merge iteration is one of at most
\* 500, removes exactly one segment and leaves at least one, so n segments
\* allow at most n-1 merges.
C13_EachMergeRemovesOneSegment ==
    [][(pc = "merge" /\ pc' = "merge") =>
          /\ i_rec' = i_rec + 1
          /\ i_rec' <= 500
          /\ Len(seg') = Len(seg) - 1
          /\ Len(segs') = Len(seg')
          /\ Len(seg') >= 1]_vars

\* three segments were merged into one by two merges
C13_Witness == pc = "reconnected" /\ i_rec = 2 /\ Len(seg) = 1

\* C14: a cell of the combined binary mask of several time slices is set
\* exactly when the cell is finite and above the threshold in at least one
\* slice, also when it is NaN in other slices.
C14_SetWhenSetInSomeSlice ==
    pc = "combined" =>
        \A c \in DOMAIN ret[1] :
            ret[1][c] <=> \E k \in 1 .. Len(params) : params[k][c] = "above"

\* endpoint o of a chain: 0 its first point, 1 its last point
EndPoint(c, o) == IF o = 0 THEN c[1] ELSE c[Len(c)]

\* the smallest squared distance among the four combinations of endpoints
MinEndDist2(c, d) ==
    LET all == {Dist2(EndPoint(c, a), EndPoint(d, b)) : a \in {0, 1}, b \in {0, 1}}
    IN  CHOOSE v \in all : \A w \in all : v <= w

\* the last merge joined the two nearest endpoints and kept the two others
\* as first and last point
MergeJoinsNearestEnds ==
    (pc \in {"merge", "reconnected"} /\ last_merge # <<>>) =>
        LET m  == last_merge
            M  == seg[m.idx0 + 1]
            n0 == Len(m.seg0)
        IN  /\ Len(M) = n0 + Len(m.seg1)
            /\ \E a \in {0, 1}, b \in {0, 1} :
                  /\ M[n0] = EndPoint(m.seg0, a)
                  /\ M[n0 + 1] = EndPoint(m.seg1, b)
                  /\ M[1] = EndPoint(m.seg0, 1 - a)
                  /\ M[Len(M)] = EndPoint(m.seg1, 1 - b)
                  /\ Dist2(M[n0], M[n0 + 1]) = MinEndDist2(m.seg0, m.seg1)

\* every pair of flags in the matrix names, for i and for j, the endpoint
\* of that segment which is nearest to the other one
StoredFlagsReferToOwnSegment ==
    pc = "merge" =>
        \A r \in 1 .. Len(prob_ma), c \in 1 .. Len(prob_ma) :
            prob_ma[r][c][2] # NaN =>
                Dist2(EndPoint(seg[r], prob_ma[r][c][2][1]),
                      EndPoint(seg[c], prob_ma[r][c][3][1]))
                    = MinEndDist2(seg[r], seg[c])

C16_UpdatedMatrixEqualsFresh ==
    (pc = "merge" /\ last_merge # <<>>) =>
        prob_ma = init_prob_matrix(segs, eps_segs, dis_thres, angle_thres,
                                   eps_thres, ellp_fac)

\* the pairs of the matrix that hold a score
ScoredPairs ==
    {rc \in (1 .. Len(prob_ma)) \X (1 .. Len(prob_ma)) :
        prob_ma[rc[1]][rc[2]][1] # NaN}

\* some pair has a composite score below 1
SomeScoreBelowOne ==
    \E rc \in ScoredPairs : prob_ma[rc[1]][rc[2]][1][1] < Scale * Scale

\* C17: the pair merged in an iteration has the minimal composite score of
\* the matrix and that score is below 1; the loop is left only when no pair
\* has a score below 1 or 500 iterations are done.
C17_MergesMinimalScoreBelowOne ==
    [][pc = "merge" =>
          /\ pc' = "merge" =>
                LET r == last_merge'.idx0 + 1
                    c == last_merge'.idx1 + 1
                IN  /\ <<r, c>> \in ScoredPairs
                    /\ prob_ma[r][c][1][1] < Scale * Scale
                    /\ \A o \in ScoredPairs :
                          prob_ma[r][c][1][1] <= prob_ma[o[1]][o[2]][1][1]
          /\ pc' # "merge" => (~SomeScoreBelowOne \/ i_rec = 500)]_vars

\* the loop was left after one merge with two segments whose score is not
\* below 1
C17_Witness ==
    /\ pc = "reconnected"
    /\ i_rec = 1
    /\ Len(seg) = 2
    /\ ScoredPairs # {}

\* the pair merged by this step had, before the step, means that differ by
\* at most eps_thres
MergedMeansWithin ==
    LET eI == eps_segs[last_merge'.idx0 + 1]
        eJ == eps_segs[last_merge'.idx1 + 1]
    IN  Abs(eI[1] * eJ[2] - eJ[1] * eI[2]) <= eI[2] * eJ[2] * eps_thres

\* the pair merged by this step had, before the step, two endpoints at a
\* distance of at most dis_thres
MergedEndsWithin ==
    LET sI == segs[last_merge'.idx0 + 1]
        sJ == segs[last_merge'.idx1 + 1]
    IN  /\ dis_thres >= 0
        /\ \E a \in {0, 1}, b \in {0, 1} :
              Dist2(EndPoint(sI, a), EndPoint(sJ, b)) * Scale * Scale
                  <= dis_thres * dis_thres

\* C18: no merge, the later ones with updated means included, joins two
\* segments whose means differ by more than eps_thres or whose four endpoint
\* distances all exceed dis_thres.
C18_NeverMergesBeyondThresholds ==
    [][(pc = "merge" /\ pc' = "merge") =>
          MergedMeansWithin /\ MergedEndsWithin]_vars

\* C18, amended: the same when eps_thres is not negative; the distance part
\* for every eps_thres.
C18_WithinThresholdsWhenNotNegative ==
    [][(pc = "merge" /\ pc' = "merge") =>
          /\ MergedEndsWithin
          /\ eps_thres >= 0 => MergedMeansWithin]_vars

\* two merges were done with a positive eps_thres, the second with the mean
\* updated by the first, on segments of different means
C18_Witness ==
    /\ pc = "reconnected"
    /\ i_rec = 2
    /\ eps_thres > 0
    /\ eps_segs[1] # <<0, 1>>

\* the rows of seg that are active after the step
RowsActiveAfter == {active_detection'[k] : k \in 1 .. Len(active_detection')}

\* C19: when the turning-angle check rejects the candidate of an active
\* segment, the candidate is not appended to the segment, the segment is
\* deactivated, and the candidate is the start of a new active segment.
C19_SharpTurnStartsNewSegment ==
    [][(pc = "loop" /\ ind' = ind + 1) =>
          \A p \in deactivate_segs_ang :
              LET a == active_detection[p + 1]
                  c == seg_append(p + 1)
              IN  /\ seg_f'[a + 1][ind' + 1] # c
                  /\ a \notin RowsActiveAfter
                  /\ \E b \in RowsActiveAfter :
                        /\ b >= Len(seg_f)
                        /\ seg_f'[b + 1][ind' + 1] = c]_vars

\* C20: when one pixel is the candidate of more than one active branch in
\* an iteration, every one of these branches leaves the active set in that
\* iteration, wherever it stands in the active list, and the pixel is the
\* start of exactly one new active segment.
C20_CollidingBranchesAllDeactivated ==
    [][(pc = "loop" /\ ind' = ind + 1) =>
          /\ \A p \in 1 .. NumActive :
                (seg_append(p) # NaN /\ seg_append(p) \in same_heads)
                    => active_detection[p] \notin RowsActiveAfter
          /\ \A h \in same_heads :
                Cardinality({b \in RowsActiveAfter :
                                /\ b >= Len(seg_f)
                                /\ seg_f'[b + 1][ind' + 1] = h}) = 1]_vars

\* positions (1-based) of the active segments that are extended by a pixel
\* with more than one undetected neighbour left
BranchingRows ==
    {p \in 1 .. NumActive :
        (p - 1) \in deactivate_segs_muln /\ (p - 1) \notin deactivate_segs_ang}

\* the still undetected pixels of the 3x3 neighbourhood of c
RemainingNeighbours(c) ==
    {n \in nodetect_marked : Abs(n[1] - c[1]) <= 1 /\ Abs(n[2] - c[2]) <= 1}

\* pixel n is marked detected by the step and starts a new active segment
StartedByStep(n) ==
    /\ n \notin nodetect'
    /\ \E b \in RowsActiveAfter : b >= Len(seg_f) /\ seg_f'[b + 1][ind' + 1] = n

\* C21: a segment extended by a pixel that still has more than one
\* undetected neighbour is deactivated at this pixel, and each remaining
\* undetected neighbour of the pixel starts a new active segment and is
\* marked detected.
C21_EveryRemainingNeighbourStarts ==
    [][(pc = "loop" /\ ind' = ind + 1) =>
          \A p \in BranchingRows :
              LET a == active_detection[p]
                  c == seg_append(p)
              IN  /\ seg_f'[a + 1][ind' + 1] = c
                  /\ a \notin RowsActiveAfter
                  /\ \A n \in RemainingNeighbours(c) : StartedByStep(n)]_vars

\* C21, amended: the segment is deactivated at the pixel, and the remaining
\* neighbours that start a new segment are those whose own 3x3 neighbourhood
\* holds at most two undetected pixels, themselves included; the others stay
\* undetected unless no segment is left active and the forced starts of the
\* same iteration take them.
C21_EndLikeNeighboursStart ==
    [][(pc = "loop" /\ ind' = ind + 1) =>
          \A p \in BranchingRows :
              LET a == active_detection[p]
                  c == seg_append(p)
              IN  /\ seg_f'[a + 1][ind' + 1] = c
                  /\ a \notin RowsActiveAfter
                  /\ \A n \in RemainingNeighbours(c) :
                        IF Cardinality(RemainingNeighbours(n)) <= 2
                        THEN StartedByStep(n)
                        ELSE n \in nodetect' \/ active_iter = <<>>]_vars

\* the valid points of a row of seg
ValidCount(row) == Cardinality({k \in 1 .. Len(row) : row[k] # NaN})

\* a row that was deactivated at its newest point stands next to a row that
\* holds one point, in the newest column, while an older row is still traced
C21_Witness ==
    /\ pc = "loop"
    /\ ind >= 1
    /\ \E a \in 1 .. Len(seg_f), b \in 1 .. Len(active_detection),
          o \in 1 .. Len(active_detection) :
          LET rb == seg_f[active_detection[b] + 1]
              ro == seg_f[active_detection[o] + 1]
              ra == seg_f[a]
          IN  /\ ValidCount(rb) = 1
              /\ rb[ind + 1] # NaN
              /\ ValidCount(ro) >= 2
              /\ \A k \in 1 .. Len(active_detection) : active_detection[k] # a - 1
              /\ ra[ind + 1] # NaN
              /\ Abs(ra[ind + 1][1] - rb[ind + 1][1]) <= 1
              /\ Abs(ra[ind + 1][2] - rb[ind + 1][2]) <= 1

\* the pixels left undetected by the iteration body whose 3x3 neighbourhood
\* holds at most two undetected pixels, themselves included
EndLikeLeft ==
    {q \in nodetect_iter :
        Cardinality({n \in nodetect_iter : /\ Abs(n[1] - q[1]) <= 1
                                           /\ Abs(n[2] - q[2]) <= 1}) <= 2}

\* the pixels left undetected by the iteration body whose 3x3 neighbourhood
\* holds at most three undetected pixels, themselves included
ForcedCandidates ==
    {q \in nodetect_iter :
        Cardinality({n \in nodetect_iter : /\ Abs(n[1] - q[1]) <= 1
                                           /\ Abs(n[2] - q[2]) <= 1}) <= 3}

\* the step is the one that passes the iteration cap
CapStep == pc = "loop" /\ ind' = ind + 1 /\ ind' > max_ind

\* C22: when the cap is reached while active branches and undetected pixels
\* both remain, the remaining undetected pixels with at most 3 neighbours are
\* seeded by force, exactly as when no active branch remains.
C22_CapForceSeeds ==
    [][(CapStep /\ active_iter # <<>> /\ nodetect_iter # {}) =>
          /\ seg_f' = seg_forced
          /\ nodetect' = nodetect_forced]_vars

\* C22, amended: the step that passes the cap returns at once: it marks no
\* pixel but the candidate heads and the neighbours of branch pixels, and
\* seeds nothing by force; forced seeding happens only below the cap when
\* no branch is left active, and then starts a pixel with at most 3
\* neighbours if one is left.
C22_CapReturnsWithoutSeeding ==
    [][(pc = "loop" /\ ind' = ind + 1) =>
          /\ ind' > max_ind =>
                /\ pc' = "traced"
                /\ \A q \in nodetect \ nodetect' :
                      \/ q \in seg_head_unique
                      \/ \E p \in deactivate_segs_muln :
                            /\ Abs(q[1] - seg_append(p + 1)[1]) <= 1
                            /\ Abs(q[2] - seg_append(p + 1)[2]) <= 1
                /\ EndLikeLeft \subseteq nodetect'
          /\ (ind' <= max_ind /\ active_iter = <<>> /\ ForcedCandidates # {}) =>
                \E q \in ForcedCandidates : StartedByStep(q)]_vars

\* the tracer has returned at the cap with active branches and with an
\* undetected end-like pixel that forced seeding would have started
C22_Witness ==
    /\ pc = "traced"
    /\ ind > max_ind
    /\ active_detection # <<>>
    /\ \E q \in nodetect :
          Cardinality({n \in nodetect : /\ Abs(n[1] - q[1]) <= 1
                                        /\ Abs(n[2] - q[2]) <= 1}) <= 2

\* every point stored in a chain of the tracer's array
AllChainPoints == UNION {ChainPoints(a) : a \in 1 .. Len(seg_f)}

\* C23: when detect_segments returns below the iteration cap, every set
\* pixel of the interior of the mask is a point of at least one chain, and no
\* pixel is marked detected without being stored in a chain.
C23_EveryPixelInSomeChain ==
    (pc = "traced" /\ ind <= max_ind) =>
        /\ \A q \in MaskPixels : q \in AllChainPoints
        /\ \A q \in MaskPixels : q \notin nodetect => q \in AllChainPoints

\* the number of points of all chains of a list
RECURSIVE PointTotal(_)
PointTotal(sg) == IF sg = <<>> THEN 0 ELSE Len(Head(sg)) + PointTotal(Tail(sg))

\* C24: lkf_detect_eps_multday runs tracing, the removal of one-point chains,
\* a reconnection pass with dis_thres 1.5, angle_thres 50, ellp_fac 1, a pass
\* with the caller's thresholds on the output of the first, and only then
\* the length filter: no chain is removed before or between the passes.
C24_StagesInOrder ==
    [][/\ (pc' = "listed") => (pc \in {"traced", "listed"} /\ pass = 0)
       /\ (pc' = "listed" /\ pc = "traced") => seg' = chain_list(seg_f)
       /\ (pc' \in {"reconnect", "merge"} /\ pass' = 1) =>
             /\ dis_thres' = (3 * Scale) \div 2
             /\ angle_thres' = 50
             /\ ellp_fac' = 1
             /\ eps_thres' = params.eps_thres
       /\ (pc' \in {"reconnect", "merge"} /\ pass' = 2) =>
             /\ dis_thres' = params.dis_thres
             /\ angle_thres' = params.angle_thres
             /\ ellp_fac' = params.ellp_fac
             /\ eps_thres' = params.eps_thres
       /\ (pc = "listed") => (pass' = 1 /\ seg' = seg)
       /\ (pc = "pass") => (pass = 1 /\ pass' = 2 /\ seg' = seg)
       /\ (pc \in {"listed", "reconnect", "merge", "pass"}) =>
             PointTotal(seg') = PointTotal(seg)
       /\ (pc = "filter") =>
             (pass = 2 /\ pc' = "filtered"
                 => seg' = filter_segs_lmin(seg, params.lmin))
       /\ (pc' = "filtered") => pc \in {"filter", "filtered"}
       /\ (pc' = "filter") => (pass = 2 /\ pc \in {"merge", "filter"})]_vars

\* the second pass has returned one segment that a merge built, and the
\* length filter has not yet run
C24_Witness ==
    /\ pc = "filter"
    /\ pass = 2
    /\ last_merge # <<>>
    /\ Len(seg) = 1
    /\ params.dis_thres > 0

\* the points of chain a of the tracer's array, in order
ChainSeq(a) == SelectSeq(seg_f[a], LAMBDA q : q # NaN)

\* C25: any two consecutive points of a chain returned by detect_segments
\* are distinct 8-neighbours; no chain repeats its own seed pixel.
C25_ConsecutivePointsAreNeighbours ==
    pc = "traced" =>
        \A a \in 1 .. Len(seg_f) :
            \A k \in 1 .. Len(ChainSeq(a)) - 1 :
                Adjacent(ChainSeq(a)[k], ChainSeq(a)[k + 1])

\* C26: every index used during tracing to read or write the undetected
\* mask and the neighbour counts lies inside the interior grid, so that no
\* access is out of range and no negative index wraps to the other border.
C26_IndicesInsideGrid ==
    /\ raised \notin {"IndexError", "ValueError"}
    /\ (pc = "loop" /\ num_nodetect > 0) =>
          /\ \A p \in 1 .. NumActive :
                seg_append(p) # NaN => seg_append(p) \in Interior
          /\ \A n \in neigh_deactivate : n \in Interior

\* C27: every point of every chain returned by detect_segments is an
\* interior coordinate at which the thinned mask is set, and every coordinate
\* of every segment returned by lkf_detect_eps_multday, after the shift by 1,
\* is a set pixel of the full thinned mask.
C27_PointsAreSetPixels ==
    /\ pc = "traced" => AllChainPoints \subseteq (MaskPixels \cap Interior)
    /\ pc = "done" =>
          \A k \in 1 .. Len(seg) : \A j \in 1 .. Len(seg[k]) : seg[k][j] \in lkf_thin

\* the whole function has returned a segment of at least two different
\* pixels
C27_Witness ==
    /\ pc = "done"
    /\ \E k \in 1 .. Len(seg) : seg[k][1] # seg[k][Len(seg[k])]

\* the rows of seg that are not in the active list
InactiveRows ==
    {a \in 0 .. Len(seg_f) - 1 :
        \A k \in 1 .. Len(active_detection) : active_detection[k] # a}

\* C28: a branch that has left the active set of detect_segments is never
\* active again and its sequence of points never changes; only active
\* branches and new starts gain points.
C28_InactiveBranchesAreFrozen ==
    [][pc = "loop" =>
          \A a \in InactiveRows :
              /\ a \notin RowsActiveAfter
              /\ SelectSeq(seg_f'[a + 1], LAMBDA q : q # NaN) = ChainSeq(a + 1)]_vars

\* in the third iteration or later a branch of two points or more is
\* inactive while another branch is still traced
C28_Witness ==
    /\ pc = "loop"
    /\ ind >= 2
    /\ active_detection # <<>>
    /\ \E a \in InactiveRows :
          /\ Len(ChainSeq(a + 1)) >= 2
          /\ seg_f[a + 1][ind + 1] = NaN

\* the file numbers written by the call
Written == {ret[k] : k \in 1 .. Len(ret)}

\* the file numbers of the requested time steps
Requested == {params.indexes[k] + 1 : k \in 1 .. Len(params.indexes)}

\* C29: detect_lkfs with force_redetect=False skips every requested time
\* step whose lkf file exists, and with force_redetect=True detects and
\* rewrites every requested time step.
C29_ForceRedetectRewritesAll ==
    pc = "detect_done" =>
        IF params.force_redetect
        THEN Written = Requested
        ELSE Written = Requested \ params.files

\* C30: throughout seg_reconnection, after any number of merges, segs[k] is
\* the first and the last point of seg[k], num_points_segs[k] is the number
\* of points of seg[k], and the collections have the same length.
C30_CachesAgreeWithChains ==
    pc \in {"reconnect", "merge", "reconnected"} =>
        /\ Len(segs) = Len(seg)
        /\ Len(num_points_segs) = Len(seg)
        /\ Len(eps_segs) = Len(seg)
        /\ \A k \in 1 .. Len(seg) :
              /\ segs[k] = <<seg[k][1], seg[k][Len(seg[k])]>>
              /\ num_points_segs[k] = Len(seg[k])

\* two merges have built one chain of the six points of three chains
C30_Witness ==
    /\ pc = "merge"
    /\ i_rec = 2
    /\ Len(seg) = 1
    /\ num_points_segs[1] = Len(seg[1])
    /\ Len(seg[1]) > Len(last_merge.seg0)

====
